---- MODULE Spec2Model ----
(***************************************************************************)
(* State core of the terminal emulator: the control dispatcher             *)
(* (Display, src/src/display.rs), the pen state, rendition state machine,  *)
(* write queue and erase engine (Terminal, src/src/lib.rs) and the batcher *)
(* entry points (Display::render, App::update).                            *)
(*                                                                         *)
(* The cell grid (term::data::grids::Grid) is not part of the sources; it  *)
(* is modelled from sections 3 and 4.4 of the specification.               *)
(***************************************************************************)
EXTENDS Integers, Sequences, FiniteSets

(***************************************************************************)
(* Bounds of the model.                                                    *)
(***************************************************************************)
\* row capacity of the viewport (window height / line height)
MaxRow == 2
\* column capacity of a row (window width / text width)
MaxCol == 3
\* retained-history bound of the grid
HistoryCap == 1
\* number of tokens / calls of one run
MaxTokens == 5
\* number of calls of one run of the erase engine
MaxEraseCalls == 3
\* modelled width of usize, in bits
UsizeBits == 16

UsizeModulus == 2 ^ UsizeBits
UsizeMax == UsizeModulus - 1

(***************************************************************************)
(* Values: Color, Attribute, Cell, Cursor.                                 *)
(***************************************************************************)
IndexBase(i) == [tag |-> "IndexBase", index |-> i]
Index256(i) == [tag |-> "Index256", index |-> i]
Rgba(r, g, b, a) == [tag |-> "Rgba", r |-> r, g |-> g, b |-> b, a |-> a]

\* Attribute::default()
AttributeDefault == "Normal"

\* `v as usize` for an i64 v
as_usize(v) == v % UsizeModulus

\* `v.try_into().unwrap_or(d)` for an i64 v and a u8 target
try_into_u8(v, d) == IF v >= 0 /\ v <= 255 THEN v ELSE d

Cursor(line, column) == [line |-> line, column |-> column]

None == [tag |-> "None"]
Some(v) == [tag |-> "Some", value |-> v]

\* the blank cell a fresh or scrolled-in grid row holds
BlankCell ==
    [c |-> " ", fg |-> IndexBase(7), bg |-> IndexBase(0), attr |-> AttributeDefault,
     erasable |-> TRUE, dirty |-> FALSE]

BlankRow == [i \in 1..MaxCol |-> BlankCell]

\* Grid::new(rows, cols): a full viewport of blank rows and no history
GridNew == [history |-> <<>>, rows |-> [i \in 1..MaxRow |-> BlankRow]]

\* Grid::len(): the number of addressable rows
GridLen(g) == Len(g.rows)

(***************************************************************************)
(* Terminal (src/src/lib.rs).                                              *)
(***************************************************************************)
TerminalNew ==
    [fg |-> IndexBase(7), bg |-> IndexBase(0), attr |-> AttributeDefault,
     dark_mode |-> FALSE, data |-> GridNew, write_stack |-> <<>>]

\* a reset that forgets the background
reset_graphic_keeps_bg(t) ==
    [t EXCEPT !.fg = IndexBase(7), !.attr = AttributeDefault]

reset_graphic(t) ==
    [t EXCEPT !.fg = IndexBase(7), !.bg = IndexBase(0), !.attr = AttributeDefault]

\* fn set_attr(&mut self, val: i64) {}
set_attr(t, val) == t

\* a foreground rule that always takes the light half of the palette
rendition_value_light_half_only(t, val) ==
    CASE val = 0 -> reset_graphic(t)
      [] val >= 30 /\ val <= 37 -> [t EXCEPT !.fg = IndexBase(as_usize(val - 30 + 8))]
      [] val = 38 -> [t EXCEPT !.fg = IndexBase(7)]
      [] val >= 40 /\ val <= 47 ->
            IF t.dark_mode
            THEN [t EXCEPT !.bg = IndexBase(as_usize(val - 30))]
            ELSE [t EXCEPT !.bg = IndexBase(as_usize(val - 30 + 8))]
      [] val = 49 -> [t EXCEPT !.bg = IndexBase(0)]
      [] OTHER -> t

\* a match whose last arm resets the pen instead of ignoring the value
rendition_value_unknown_resets(t, val) ==
    CASE val >= 1 /\ val <= 27 -> t
      [] val >= 30 /\ val <= 37 ->
            IF t.dark_mode
            THEN [t EXCEPT !.fg = IndexBase(as_usize(val - 30))]
            ELSE [t EXCEPT !.fg = IndexBase(as_usize(val - 30 + 8))]
      [] val = 38 -> [t EXCEPT !.fg = IndexBase(7)]
      [] val >= 40 /\ val <= 47 ->
            IF t.dark_mode
            THEN [t EXCEPT !.bg = IndexBase(as_usize(val - 30))]
            ELSE [t EXCEPT !.bg = IndexBase(as_usize(val - 30 + 8))]
      [] val = 49 -> [t EXCEPT !.bg = IndexBase(0)]
      [] OTHER -> reset_graphic(t)

\* one iteration of the short-form loop of Terminal::rendition
rendition_value(t, val) ==
    CASE val = 0 -> reset_graphic(t)
      [] val >= 1 /\ val <= 27 -> set_attr(t, val)
      [] val >= 30 /\ val <= 37 ->
            IF t.dark_mode
            THEN [t EXCEPT !.fg = IndexBase(as_usize(val - 30))]
            ELSE [t EXCEPT !.fg = IndexBase(as_usize(val - 30 + 8))]
      [] val = 38 -> [t EXCEPT !.fg = IndexBase(7)]
      [] val >= 40 /\ val <= 47 ->
            IF t.dark_mode
            THEN [t EXCEPT !.bg = IndexBase(as_usize(val - 30))]
            ELSE [t EXCEPT !.bg = IndexBase(as_usize(val - 30 + 8))]
      [] val = 49 -> [t EXCEPT !.bg = IndexBase(0)]
      [] OTHER -> t

\* a loop that applies its values last to first
rendition_short_backwards(t, r) ==
    IF Len(r) = 2 THEN rendition_value(rendition_value(t, r[2]), r[1])
    ELSE IF Len(r) = 1 THEN rendition_value(t, r[1])
    ELSE t

\* the short-form loop: every value applied in list order
RECURSIVE rendition_short(_, _)
rendition_short(t, r) ==
    IF r = <<>> THEN t ELSE rendition_short(rendition_value(t, Head(r)), Tail(r))

\* a channel whose absence reads as full intensity
channel_missing_is_max(rgb, i, d) == IF Len(rgb) > i THEN try_into_u8(rgb[i + 1], d) ELSE 255

\* rgb.get(i).map_or_else(|| d, |v| (*v).try_into().unwrap_or(d)), i from 0
channel(rgb, i, d) == IF Len(rgb) > i THEN try_into_u8(rgb[i + 1], d) ELSE d

direct_color(rgb) ==
    Rgba(channel(rgb, 0, 0), channel(rgb, 1, 0), channel(rgb, 2, 0), channel(rgb, 3, 255))

\* a parser whose 38,5,N arm forgets the leading parameters
rendition_drops_prefix(t, r) ==
    LET n == Len(r) IN
    IF n <= 2 THEN rendition_short(t, r)
    ELSE IF r[n - 1] = 5 /\ r[n - 2] \in {38, 48} THEN [t EXCEPT !.fg = Index256(as_usize(r[n]))]
    ELSE t

RECURSIVE rendition(_, _)
rendition(t, r) ==
    LET n == Len(r) IN
    IF n <= 2 THEN rendition_short(t, r)
    ELSE IF r[n - 2] = 38 /\ r[n - 1] = 5
         THEN [rendition(t, SubSeq(r, 1, n - 3)) EXCEPT !.fg = Index256(as_usize(r[n]))]
    ELSE IF r[n - 2] = 48 /\ r[n - 1] = 5
         THEN [rendition(t, SubSeq(r, 1, n - 3)) EXCEPT !.fg = Index256(as_usize(r[n]))]
    ELSE IF r[1] = 38 /\ r[2] = 2
         THEN [t EXCEPT !.fg = direct_color(SubSeq(r, 3, n))]
    ELSE IF r[1] = 48 /\ r[2] = 2
         THEN [t EXCEPT !.bg = direct_color(SubSeq(r, 3, n))]
    ELSE t

\* the cell Terminal::add_new_cell pushes
NewCell(t, c) ==
    [c |-> c, fg |-> t.fg, bg |-> t.bg, attr |-> t.attr, erasable |-> TRUE, dirty |-> FALSE]

\* a push that takes the default pen instead of the current one
add_new_cell_default_pen(t, c) ==
    [t EXCEPT !.write_stack = Append(@, NewCell(reset_graphic(t), c))]

add_new_cell(t, c) == [t EXCEPT !.write_stack = Append(@, NewCell(t, c))]

(***************************************************************************)
(* Colour resolver (Renderer::to_rgba, src/src/renderer.rs).               *)
(***************************************************************************)
\* colorscheme: &[RGBA; 16]
ColorschemeLen == 16
\* the number of entries of ANSI_256
Ansi256Len == 256

\* [panic, rgba]: an index beyond its table panics; the entry is kept by name
to_rgba(color) ==
    CASE color.tag = "Rgba" -> [panic |-> FALSE, rgba |-> color]
      [] color.tag = "IndexBase" ->
            [panic |-> ~(color.index < ColorschemeLen),
             rgba |-> [tag |-> "colorscheme", index |-> color.index]]
      [] color.tag = "Index256" ->
            [panic |-> ~(color.index < Ansi256Len),
             rgba |-> [tag |-> "ANSI_256", index |-> color.index]]

(***************************************************************************)
(* Cell grid: Grid::input_insert, scrolling and the history bound.         *)
(***************************************************************************)
\* the oldest viewport row moves into the history, a blank row enters at the
\* bottom, and the oldest history row is evicted beyond the bound
scroll(g) ==
    LET h == Append(g.history, Head(g.rows))
    IN [history |-> IF Len(h) > HistoryCap THEN Tail(h) ELSE h,
        rows |-> Append(Tail(g.rows), BlankRow)]

RECURSIVE scroll_n(_, _)
scroll_n(g, k) == IF k <= 0 THEN g ELSE scroll_n(scroll(g), k - 1)

\* after MaxRow + HistoryCap scrolls every row is blank: more change nothing
scroll_by(g, k) ==
    scroll_n(g, IF k > MaxRow + HistoryCap THEN MaxRow + HistoryCap ELSE k)

\* Grid::input_insert(cells, cursor, |_| true): commits the cells from the
\* cursor on, wrapping at the column capacity and scrolling at the row
\* capacity; the cursor ends after the last cell
RECURSIVE input_insert(_, _, _)
input_insert(g, cells, cur) ==
    IF cells = <<>> THEN [data |-> g, cursor |-> cur]
    ELSE LET wrapped == IF cur.column >= MaxCol
                        THEN Cursor((cur.line + 1) % UsizeModulus, 0)
                        ELSE cur
             k == IF wrapped.line >= MaxRow THEN wrapped.line - MaxRow + 1 ELSE 0
             g1 == scroll_by(g, k)
             at == Cursor(wrapped.line - k, wrapped.column)
             g2 == [g1 EXCEPT !.rows[at.line + 1][at.column + 1] = Head(cells)]
         IN input_insert(g2, Tail(cells), Cursor(at.line, at.column + 1))

(***************************************************************************)
(* Outcomes of a handler: the state it leaves, or a panic.                 *)
(***************************************************************************)
Out(t, cur, saved) == [term |-> t, cursor |-> cur, saved_cursor |-> saved, panic |-> FALSE]
Panic(t, cur, saved) == [term |-> t, cursor |-> cur, saved_cursor |-> saved, panic |-> TRUE]

\* usize `x + 1`: a panic where overflow is checked, a wrap where it is not
add_one(x) == IF x = UsizeMax THEN {[v |-> 0, panic |-> FALSE], [v |-> x, panic |-> TRUE]}
              ELSE {[v |-> x + 1, panic |-> FALSE]}

\* usize `x - 1`: a panic where overflow is checked, a wrap where it is not
sub_one(x) == IF x = 0 THEN {[v |-> UsizeMax, panic |-> FALSE], [v |-> x, panic |-> TRUE]}
              ELSE {[v |-> x - 1, panic |-> FALSE]}

\* an update that commits the queue and keeps it
update_keeps_queue(t, cur) ==
    LET r == input_insert(t.data, t.write_stack, cur)
    IN [term |-> [t EXCEPT !.data = r.data], cursor |-> r.cursor]

\* an update that commits on the first viewport line, whatever the cursor line
update_at_first_line(t, cur) ==
    LET r == input_insert(t.data, t.write_stack, Cursor(0, cur.column))
    IN [term |-> [t EXCEPT !.data = r.data, !.write_stack = <<>>], cursor |-> r.cursor]

\* Terminal::update: the write queue is taken and committed at the cursor
update(t, cur) ==
    LET r == input_insert(t.data, t.write_stack, cur)
    IN [term |-> [t EXCEPT !.data = r.data, !.write_stack = <<>>], cursor |-> r.cursor]

(***************************************************************************)
(* Erase engine (Terminal::erase_line_range_unchecked,                     *)
(* Terminal::erase_range_unchecked).                                       *)
(***************************************************************************)
\* the filters the dispatcher passes: |_| true and |c| c.erasable
with_filter(f, cell) == IF f = "erasable" THEN cell.erasable ELSE TRUE

\* an erase that clears the character and keeps the colours
erase_cell_keeps_colours(cell) == [cell EXCEPT !.c = " ", !.dirty = TRUE]

\* an erase that also lifts the protection of the cell
erase_cell_unprotects(cell) ==
    [cell EXCEPT !.c = " ", !.dirty = TRUE, !.bg = IndexBase(0), !.fg = IndexBase(7),
                 !.attr = AttributeDefault, !.erasable = TRUE]

erase_cell(cell) ==
    [cell EXCEPT !.c = " ", !.dirty = TRUE, !.bg = IndexBase(0), !.fg = IndexBase(7),
                 !.attr = AttributeDefault]

\* a loop that never asks the filter
erase_row_columns_ignores_filter(row, lo, hi, f) ==
    [i \in 1..Len(row) |-> IF i - 1 >= lo /\ i - 1 < hi THEN erase_cell(row[i]) ELSE row[i]]

\* the loop of erase_line_range_unchecked over the columns lo..hi-1 of a row
erase_row_columns(row, lo, hi, f) ==
    [i \in 1..Len(row) |->
        IF i - 1 >= lo /\ i - 1 < hi /\ with_filter(f, row[i]) THEN erase_cell(row[i])
        ELSE row[i]]

\* [term, panic]: indexing a line that is not in the grid panics
erase_line_range_unchecked(t, line, lo, hi, f) ==
    IF GridLen(t.data) < line THEN [term |-> t, panic |-> FALSE]
    ELSE IF line >= GridLen(t.data) THEN [term |-> t, panic |-> TRUE]
    ELSE [term |-> [t EXCEPT !.data.rows[line + 1] = erase_row_columns(@, lo, hi, f)],
          panic |-> FALSE]

\* the number of leading cells of a row that pass the filter (take_while)
RECURSIVE take_while_len(_, _)
take_while_len(row, f) ==
    IF row = <<>> \/ ~with_filter(f, Head(row)) THEN 0 ELSE 1 + take_while_len(Tail(row), f)

erase_row_prefix(row, f) ==
    LET k == take_while_len(row, f)
    IN [i \in 1..Len(row) |-> IF i <= k THEN erase_cell(row[i]) ELSE row[i]]

\* [term, panic]: the lines lo..hi-1, each erased up to its first filtered cell
erase_range_unchecked(t, lo, hi, f) ==
    IF hi > lo /\ hi > GridLen(t.data) THEN [term |-> t, panic |-> TRUE]
    ELSE [term |-> [t EXCEPT !.data.rows =
                        [i \in 1..Len(@) |->
                            IF i - 1 >= lo /\ i - 1 < hi THEN erase_row_prefix(@[i], f)
                            ELSE @[i]]],
          panic |-> FALSE]

(***************************************************************************)
(* Tokens: a decoded ControlFunction, or VtConsume::Print(c).              *)
(***************************************************************************)
CF(name) == [name |-> name, c |-> "", params |-> <<>>]
CFp(name, params) == [name |-> name, c |-> "", params |-> params]
PrintOf(c) == [name |-> "Print", c |-> c, params |-> <<>>]

\* the control functions Display::execute_control lists with an empty arm
ExecuteNoOps ==
    {"Null", "Enquire", "Bell", "Backspace", "HTab", "VTab", "FormFeed",
     "LockingShift1", "LockingShift0", "XON", "XOFF", "Cancel", "Substitute",
     "Index", "NextLine", "SetHTab", "SingleShift2", "SingleShift3",
     "StringTerminator", "BackIndex", "SaveCursor", "RestoreCursor", "ForwardIndex",
     "Reset", "DoubleTop", "DoubleBottom", "SingleWidth", "DoubleWidth", "Illegal"}

(***************************************************************************)
(* Display (src/src/display.rs): the handlers, as sets of outcomes.        *)
(***************************************************************************)
\* a Line Feed that commits and resets the column but stays on its line
execute_control_lf_keeps_line(t, cur, saved, cf) ==
    LET u == update(t, cur)
    IN CASE cf.name \in {"LineFeed", "CarriageReturn"} ->
                {Out(u.term, Cursor(u.cursor.line, 0), saved)}
         [] OTHER -> {Out(t, cur, saved)}

\* a Line Feed that moves the cursor and leaves the queue pending
execute_control_lf_skips_update(t, cur, saved, cf) ==
    CASE cf.name = "LineFeed" ->
            {IF a.panic THEN Panic(t, Cursor(cur.line, 0), saved)
             ELSE Out(t, Cursor(a.v, 0), saved) : a \in add_one(cur.line)}
      [] cf.name = "CarriageReturn" ->
            LET u == update(t, cur)
            IN {Out(u.term, Cursor(u.cursor.line, 0), saved)}
      [] cf.name = "ReverseIndex" ->
            {IF a.panic THEN Panic(t, cur, saved)
             ELSE Out(t, Cursor(a.v, cur.column), saved) : a \in sub_one(cur.line)}
      [] OTHER -> {Out(t, cur, saved)}

\* a Carriage Return that commits and leaves the column where the commit ended
execute_control_cr_keeps_column(t, cur, saved, cf) ==
    CASE cf.name = "LineFeed" ->
            LET u == update(t, cur)
            IN {IF a.panic THEN Panic(u.term, Cursor(u.cursor.line, 0), saved)
                ELSE Out(u.term, Cursor(a.v, 0), saved) : a \in add_one(u.cursor.line)}
      [] cf.name = "CarriageReturn" ->
            LET u == update(t, cur)
            IN {Out(u.term, u.cursor, saved)}
      [] cf.name = "ReverseIndex" ->
            {IF a.panic THEN Panic(t, cur, saved)
             ELSE Out(t, Cursor(a.v, cur.column), saved) : a \in sub_one(cur.line)}
      [] OTHER -> {Out(t, cur, saved)}

\* a Backspace that commits the pending cells
execute_control_backspace_commits(t, cur, saved, cf) ==
    LET u == update(t, cur)
    IN CASE cf.name = "LineFeed" ->
                {IF a.panic THEN Panic(u.term, Cursor(u.cursor.line, 0), saved)
                 ELSE Out(u.term, Cursor(a.v, 0), saved) : a \in add_one(u.cursor.line)}
         [] cf.name = "CarriageReturn" -> {Out(u.term, Cursor(u.cursor.line, 0), saved)}
         [] cf.name = "Backspace" -> {Out(u.term, u.cursor, saved)}
         [] OTHER -> {Out(t, cur, saved)}

execute_control(t, cur, saved, cf) ==
    CASE cf.name = "LineFeed" ->
            LET u == update(t, cur)
            IN {IF a.panic THEN Panic(u.term, Cursor(u.cursor.line, 0), saved)
                ELSE Out(u.term, Cursor(a.v, 0), saved) : a \in add_one(u.cursor.line)}
      [] cf.name = "CarriageReturn" ->
            LET u == update(t, cur)
            IN {Out(u.term, Cursor(u.cursor.line, 0), saved)}
      [] cf.name = "ReverseIndex" ->
            {IF a.panic THEN Panic(t, cur, saved)
             ELSE Out(t, Cursor(a.v, cur.column), saved) : a \in sub_one(cur.line)}
      [] cf.name \in ExecuteNoOps -> {Out(t, cur, saved)}
      [] OTHER -> {Panic(t, cur, saved)}

\* a print that commits its cell at once
print_commits_at_once(t, cur, saved, consume) ==
    LET u == update(add_new_cell(t, consume.c), cur)
    IN {Out(u.term, u.cursor, saved)}

\* Handler::hook, Handler::put, Handler::unhook, Handler::osc_dispatch: empty bodies
hook(t, cur, saved, consume) == {Out(t, cur, saved)}

put(t, cur, saved, consume) == {Out(t, cur, saved)}

unhook(t, cur, saved) == {Out(t, cur, saved)}

osc_dispatch(t, cur, saved, consume) == {Out(t, cur, saved)}

\* Handler::print
print(t, cur, saved, consume) ==
    IF consume.name = "Print" THEN {Out(add_new_cell(t, consume.c), cur, saved)}
    ELSE {Panic(t, cur, saved)}

\* an Erase-in-Display whose mode 0 stops at the end of the cursor row
erase_in_display_keeps_rows_below(t, cur, flag, f) ==
    CASE flag = 0 ->
            IF cur.line >= GridLen(t.data) THEN [term |-> t, panic |-> TRUE]
            ELSE erase_line_range_unchecked(t, cur.line, cur.column,
                                            Len(t.data.rows[cur.line + 1]), f)
      [] flag = 1 ->
            LET a == erase_range_unchecked(t, 0, cur.line, f)
            IN IF a.panic THEN a
               ELSE erase_line_range_unchecked(a.term, cur.line, 0, cur.column, f)
      [] flag = 2 -> erase_range_unchecked(t, 0, GridLen(t.data), f)
      [] OTHER -> [term |-> t, panic |-> FALSE]

\* the arms of Editing::EraseInDisplay / SelectiveEraseDisplay; [term, panic]
erase_in_display(t, cur, flag, f) ==
    CASE flag = 0 ->
            IF cur.line >= GridLen(t.data) THEN [term |-> t, panic |-> TRUE]
            ELSE LET row_len == Len(t.data.rows[cur.line + 1])
                     col_len == GridLen(t.data)
                     a == erase_line_range_unchecked(t, cur.line, cur.column, row_len, f)
                 IN IF a.panic THEN a
                    ELSE erase_range_unchecked(a.term, cur.line + 1, col_len, f)
      [] flag = 1 ->
            LET a == erase_range_unchecked(t, 0, cur.line, f)
            IN IF a.panic THEN a
               ELSE erase_line_range_unchecked(a.term, cur.line, 0, cur.column, f)
      [] flag = 2 -> erase_range_unchecked(t, 0, GridLen(t.data), f)
      [] OTHER -> [term |-> t, panic |-> FALSE]

\* an Erase-in-Line whose mode 1 erases nothing
erase_in_line_mode1_is_noop(t, cur, flag, f) ==
    CASE flag = 0 ->
            IF cur.line >= GridLen(t.data) THEN [term |-> t, panic |-> TRUE]
            ELSE erase_line_range_unchecked(t, cur.line, cur.column,
                                            Len(t.data.rows[cur.line + 1]), f)
      [] flag = 2 ->
            IF cur.line >= GridLen(t.data) THEN [term |-> t, panic |-> TRUE]
            ELSE erase_line_range_unchecked(t, cur.line, 0,
                                            Len(t.data.rows[cur.line + 1]), f)
      [] OTHER -> [term |-> t, panic |-> FALSE]

\* the arms of Editing::EraseInLine / SelectiveEraseLine; [term, panic]
erase_in_line(t, cur, flag, f) ==
    CASE flag = 0 ->
            IF cur.line >= GridLen(t.data) THEN [term |-> t, panic |-> TRUE]
            ELSE erase_line_range_unchecked(t, cur.line, cur.column,
                                            Len(t.data.rows[cur.line + 1]), f)
      [] flag = 1 -> erase_line_range_unchecked(t, cur.line, 0, cur.column, f)
      [] flag = 2 ->
            IF cur.line >= GridLen(t.data) THEN [term |-> t, panic |-> TRUE]
            ELSE erase_line_range_unchecked(t, cur.line, 0,
                                            Len(t.data.rows[cur.line + 1]), f)
      [] OTHER -> [term |-> t, panic |-> FALSE]

\* a pen change that repaints the pending cells with the new pen
csi_visual_repaints_queue(t, cf) ==
    LET u == IF cf.name = "GraphicRendition" THEN rendition(t, cf.params) ELSE t
    IN [u EXCEPT !.write_stack =
            [i \in 1..Len(@) |-> [@[i] EXCEPT !.fg = u.fg, !.bg = u.bg, !.attr = u.attr]]]

\* Handler::csi_dispatch, the SelectGraphicRendition / DarkMode arms
csi_visual(t, cf) ==
    CASE cf.name = "DarkMode" -> [t EXCEPT !.dark_mode = (cf.params[1] = 1)]
      [] cf.name = "GraphicRendition" -> rendition(t, cf.params)
      [] OTHER -> t

\* Handler::csi_dispatch, the editing arms
csi_editing(t, cur, cf) ==
    CASE cf.name = "EraseInDisplay" -> erase_in_display(t, cur, cf.params[1], "all")
      [] cf.name = "SelectiveEraseDisplay" -> erase_in_display(t, cur, cf.params[1], "erasable")
      [] cf.name = "EraseInLine" -> erase_in_line(t, cur, cf.params[1], "all")
      [] cf.name = "SelectiveEraseLine" -> erase_in_line(t, cur, cf.params[1], "erasable")
      [] OTHER -> [term |-> t, panic |-> FALSE]

VisualNames == {"DarkMode", "GraphicRendition"}
EditingNames == {"EraseInDisplay", "SelectiveEraseDisplay", "EraseInLine", "SelectiveEraseLine"}

\* a Restore-Cursor that leaves the snapshot in its slot
csi_dispatch_restore_keeps_slot(t, cur, saved, cf) ==
    IF cf.name \in VisualNames THEN {Out(csi_visual(t, cf), cur, saved)}
    ELSE IF cf.name \in {"SaveCursor", "SaveCursorPosition"}
         THEN {Out(t, cur, Some(cur))}
    ELSE IF cf.name \in {"RestoreCursor", "RestoreSavedCursor"}
         THEN {IF saved.tag = "Some" THEN Out(t, saved.value, saved) ELSE Out(t, cur, saved)}
    ELSE {Out(t, cur, saved)}

\* Handler::csi_dispatch
csi_dispatch(t, cur, saved, cf) ==
    IF cf.name \in VisualNames THEN {Out(csi_visual(t, cf), cur, saved)}
    ELSE IF cf.name \in EditingNames
         THEN LET e == csi_editing(t, cur, cf)
              IN {IF e.panic THEN Panic(e.term, cur, saved) ELSE Out(e.term, cur, saved)}
    ELSE IF cf.name \in {"SaveCursor", "SaveCursorPosition"}
         THEN {Out(t, cur, Some(cur))}
    ELSE IF cf.name \in {"RestoreCursor", "RestoreSavedCursor"}
         THEN {IF saved.tag = "Some" THEN Out(t, saved.value, None) ELSE Out(t, cur, saved)}
    ELSE {Out(t, cur, saved)}

\* Grid::resize(max_col, max_row, |_| true) to the capacity the grid has:
\* every row and every cell is retained
grid_resize(g, max_col, max_row) == g

\* a resize that commits the pending cells first; [term, cursor]
resize_after_update(t, cur, max_row, max_col) ==
    LET u == update(t, cur)
    IN [term |-> [u.term EXCEPT !.data = grid_resize(@, max_col, max_row)],
        cursor |-> u.cursor]

\* Terminal::resize; [term, cursor]
resize(t, cur, max_row, max_col) ==
    [term |-> [t EXCEPT !.data = grid_resize(@, max_col, max_row)], cursor |-> cur]

\* Display::render_line, the run loop: state after the cells seen so far
RECURSIVE fg_runs_from(_, _, _, _)
fg_runs_from(cells, data, current, prev_color) ==
    IF cells = <<>> THEN Append(data, [text |-> current, color |-> prev_color.value])
    ELSE LET cell == Head(cells)
         IN IF prev_color = None
            THEN fg_runs_from(Tail(cells), data, Append(current, cell.c), Some(cell.fg))
            ELSE IF prev_color.value = cell.fg
            THEN fg_runs_from(Tail(cells), data, Append(current, cell.c), prev_color)
            ELSE fg_runs_from(Tail(cells),
                              Append(data, [text |-> current, color |-> prev_color.value]),
                              <<cell.c>>, Some(cell.fg))

\* a run loop that closes a run after every cell
fg_runs_cell_by_cell(row) == [i \in 1..Len(row) |-> [text |-> <<row[i].c>>, color |-> row[i].fg]]

\* Display::render_line: the (text, fg colour) runs of a row
fg_runs(row) == IF Len(row) = 0 THEN <<>> ELSE fg_runs_from(row, <<>>, <<>>, None)

(***************************************************************************)
(* Display::render_line, the glyph loop. The shaper is harfbuzz: a font is *)
(* kept as the set of character sequences it draws as one ligature glyph.  *)
(***************************************************************************)
Fonts == {{}, {<<"A", "B">>}, {<<"A", "B">>, <<"A", "A", "B">>}}

\* the ligature l of the font starts at index at of text
LigatureAt(text, at, l) ==
    /\ at + Len(l) - 1 <= Len(text)
    /\ \A k \in 1..Len(l) : text[at + k - 1] = l[k]

\* the glyph infos of text from index at on: cluster (from 0) and the number
\* of characters the glyph stands for; the longest ligature wins
RECURSIVE shape_from(_, _, _)
shape_from(text, font, at) ==
    IF at > Len(text) THEN <<>>
    ELSE LET ws == {Len(l) : l \in {m \in font : LigatureAt(text, at, m)}} \cup {1}
             w == CHOOSE x \in ws : \A y \in ws : y <= x
         IN <<[cluster |-> at - 1, width |-> w]>> \o shape_from(text, font, at + w)

\* harfbuzz_rs::shape(font, text, [liga, calt])
shape(text, font) == shape_from(text, font, 1)

\* a scale that never shrinks a glyph
glyph_scale_always_one(d) == [num |-> 1, den |-> 1]

\* `1.0 / (1.0 + scale_factor as f32 * 0.1)` if scale_factor > 1, else 1.0;
\* kept as the fraction num / den
glyph_scale(d) == IF d > 1 THEN [num |-> 10, den |-> 10 + d] ELSE [num |-> 1, den |-> 1]

\* the glyphs of the runs r.. of a row: curr_col counts the glyphs drawn so far
RECURSIVE place_runs(_, _, _, _)
place_runs(runs, r, curr_col, font) ==
    IF r > Len(runs) THEN <<>>
    ELSE LET infos == shape(runs[r].text, font)
             glyphs == [k \in 1..Len(infos) |->
                          [run |-> r, index |-> k - 1, curr_col |-> curr_col + k - 1,
                           width |-> infos[k].width, last |-> (k = Len(infos)),
                           scale |-> glyph_scale(IF k < Len(infos)
                                                 THEN infos[k + 1].cluster - infos[k].cluster
                                                 ELSE 1)]]
         IN glyphs \o place_runs(runs, r + 1, curr_col + Len(infos), font)

\* Display::render_line: the glyphs drawn for a row, x = curr_col * text_width
render_line(row, font) == place_runs(fg_runs(row), 1, 0, font)

(***************************************************************************)
(* Renderer::prepare_render (src/src/renderer.rs): the cells of the grid   *)
(* are grouped and each group is handed to the glyph loader.               *)
(***************************************************************************)
LineOffset == 0

\* Display::grid_iter(Line(0)): the cells of the viewport with their
\* positions, row by row
grid_iter(g) ==
    [n \in 1..(Len(g.rows) * MaxCol) |->
        LET line == (n - 1) \div MaxCol
            col == (n - 1) % MaxCol
        IN [line |-> line, col |-> col, cell |-> g.rows[line + 1][col + 1]]]

\* the locals of prepare_render before the first cell
BatchNew ==
    [result |-> <<>>, panic |-> FALSE, current_line |-> None, current_group |-> <<>>,
     start_col |-> None, last_fg |-> None, last_bg |-> None, last_attribute |-> None]

\* font_loader.load(.., current_group, last_attribute, to_rgba(last_fg),
\* to_rgba(last_bg), .., Line(current_line - line_offset), start_col): the
\* group joins the result; a colour outside its table panics
load_group(st) ==
    LET fg == to_rgba(st.last_fg.value)
        bg == to_rgba(st.last_bg.value)
    IN IF fg.panic \/ bg.panic THEN [st EXCEPT !.panic = TRUE]
       ELSE [st EXCEPT !.result =
                Append(@, [text |-> st.current_group, attr |-> st.last_attribute.value,
                           fg |-> fg.rgba, bg |-> bg.rgba,
                           line |-> st.current_line.value - LineOffset,
                           col |-> st.start_col.value]),
                       !.current_group = <<>>]

\* the locals that describe the group the cell p opens
open_group(st, p) ==
    [st EXCEPT !.current_line = Some(p.line), !.start_col = Some(p.col),
               !.last_fg = Some(p.cell.fg), !.last_bg = Some(p.cell.bg),
               !.last_attribute = Some(p.cell.attr)]

\* the loop `for cell in data`
RECURSIVE prepare_render_from(_, _)
prepare_render_from(data, st) ==
    IF data = <<>> \/ st.panic THEN st
    ELSE LET p == Head(data)
             pushed(s) == [s EXCEPT !.current_group = Append(@, p.cell.c)]
         IN IF st.current_line = None
            THEN prepare_render_from(Tail(data), pushed(open_group(st, p)))
            ELSE IF \/ st.current_line.value # p.line
                    \/ st.last_fg.value # p.cell.fg
                    \/ st.last_bg.value # p.cell.bg
                    \/ st.last_attribute.value # p.cell.attr
                 THEN LET loaded == load_group(st)
                      IN IF loaded.panic THEN loaded
                         ELSE prepare_render_from(Tail(data), pushed(open_group(loaded, p)))
                 ELSE prepare_render_from(Tail(data), pushed(st))

\* a batcher that forgets the group it is building when the cells end
prepare_render_drops_last(data) ==
    LET st == prepare_render_from(data, BatchNew)
    IN [panic |-> st.panic, groups |-> st.result]

\* Renderer::prepare_render: [panic, groups]
prepare_render(data) ==
    LET st == prepare_render_from(data, BatchNew)
        done == IF ~st.panic /\ st.current_group # <<>> THEN load_group(st) ELSE st
    IN [panic |-> done.panic, groups |-> done.result]

(***************************************************************************)
(* App::update (src/src/lib.rs): the read loop.                            *)
(***************************************************************************)
\* `if curr > 100 { break }`
ReadBreak == 100
\* `vec![0; 2048]`
BuffLen == 2048
\* number of reads of one run
MaxReads == 4

\* bytes are kept as chunks [id, n]: the n bytes the id-th read returned
AppNew ==
    [pc |-> "idle", buff |-> <<>>, curr |-> 0, returned |-> <<>>, forwarded |-> <<>>,
     nreads |-> 0]

\* Display::render up to the row loop: the queue is committed if it holds cells
render_flush(t, cur) ==
    IF t.write_stack # <<>> THEN update(t, cur) ELSE [term |-> t, cursor |-> cur]

(***************************************************************************)
(* State.                                                                  *)
(***************************************************************************)
VARIABLES
    term,          \* Display.term: the Terminal (pen, grid, write queue)
    cursor,        \* Display.cursor
    saved_cursor,  \* Display.saved_cursor
    panicked,      \* a handler panicked: the process is gone
    seen,          \* the grid rows the last glyph-batching pass read
    last,          \* history: the handler that ran last and its token
    before,        \* history: the state the last handler started from
    print_pen,     \* history: the pen at the Print of each pending cell
    ntok,          \* number of handler calls so far
    matched,       \* history: number of calls that followed the Scenario so far
    budget,        \* number of handler calls of the run
    app,           \* App::update: position in the read loop, buffer, bytes read and parsed
    batch          \* the cells prepare_render was last given and what it returned

vars ==
    <<term, cursor, saved_cursor, panicked, seen, last, before, print_pen, ntok, matched,
      budget, app, batch>>

Pen(t) == [fg |-> t.fg, bg |-> t.bg, attr |-> t.attr]

Snapshot ==
    [term |-> term, cursor |-> cursor, saved_cursor |-> saved_cursor,
     print_pen |-> print_pen]

\* the end-to-end scenario: the tokens of "A\x1b[31mB\x1b[0mC\r\n"
Scenario ==
    <<[h |-> "print", tok |-> PrintOf("A")],
      [h |-> "csi_dispatch", tok |-> CFp("GraphicRendition", <<31>>)],
      [h |-> "print", tok |-> PrintOf("B")],
      [h |-> "csi_dispatch", tok |-> CFp("GraphicRendition", <<0>>)],
      [h |-> "print", tok |-> PrintOf("C")],
      [h |-> "execute", tok |-> CF("CarriageReturn")],
      [h |-> "execute", tok |-> CF("LineFeed")]>>

\* Display::new: cursor at (0, 0), no saved cursor, a fresh Terminal
InitWith(calls) ==
    /\ term = TerminalNew
    /\ cursor = Cursor(0, 0)
    /\ saved_cursor = None
    /\ panicked = FALSE
    /\ seen = <<>>
    /\ last = [h |-> "new", tok |-> CF("")]
    /\ before = [term |-> TerminalNew, cursor |-> Cursor(0, 0), saved_cursor |-> None,
                 print_pen |-> <<>>]
    /\ print_pen = <<>>
    /\ ntok = 0
    /\ matched = 0
    /\ budget = calls
    /\ app = AppNew
    /\ batch = [data |-> <<>>, out |-> [panic |-> FALSE, groups |-> <<>>]]

Init == InitWith(MaxTokens)

\* one handler call: one of its outcomes becomes the state
Step(h, tok, outs) ==
    /\ ~panicked
    /\ ntok < budget
    /\ \E o \in outs :
          /\ term' = o.term
          /\ cursor' = o.cursor
          /\ saved_cursor' = o.saved_cursor
          /\ panicked' = o.panic
          /\ print_pen' = IF o.term.write_stack = <<>> THEN <<>>
                          ELSE IF h = "print" /\ ~o.panic THEN Append(print_pen, Pen(term))
                          ELSE print_pen
    /\ last' = [h |-> h, tok |-> tok]
    /\ before' = Snapshot
    /\ ntok' = ntok + 1
    /\ matched' = IF matched = ntok /\ ntok < Len(Scenario)
                         /\ Scenario[ntok + 1] = [h |-> h, tok |-> tok]
                  THEN matched + 1 ELSE matched
    /\ UNCHANGED <<budget, app>>

PrintChar(c) ==
    /\ Step("print", PrintOf(c), print(term, cursor, saved_cursor, PrintOf(c)))
    /\ UNCHANGED <<seen, batch>>

Execute(cf) ==
    /\ Step("execute", cf, execute_control(term, cursor, saved_cursor, cf))
    /\ UNCHANGED <<seen, batch>>

EscDispatch(cf) ==
    /\ Step("esc_dispatch", cf, execute_control(term, cursor, saved_cursor, cf))
    /\ UNCHANGED <<seen, batch>>

CsiDispatch(cf) ==
    /\ Step("csi_dispatch", cf, csi_dispatch(term, cursor, saved_cursor, cf))
    /\ UNCHANGED <<seen, batch>>

\* Display::render: flush, then every row is handed to render_line
Render ==
    LET u == render_flush(term, cursor)
    IN /\ Step("render", CF("render"), {Out(u.term, u.cursor, saved_cursor)})
       /\ seen' = u.term.data.rows
       /\ UNCHANGED batch

\* App::update after the parser returned: the batcher reads the grid rows
AppUpdate ==
    LET data == grid_iter(term.data)
        out == prepare_render(data)
    IN /\ Step("update", CF("update"),
               {IF out.panic THEN Panic(term, cursor, saved_cursor)
                ELSE Out(term, cursor, saved_cursor)})
       /\ seen' = term.data.rows
       /\ batch' = [data |-> data, out |-> out]

\* a call Terminal::resize(max_row, max_col) on the Display's Terminal
Resize(max_row, max_col) ==
    LET u == resize(term, cursor, max_row, max_col)
    IN /\ Step("resize", CFp("resize", <<max_row, max_col>>),
               {Out(u.term, u.cursor, saved_cursor)})
       /\ UNCHANGED <<seen, batch>>

DisplayVars ==
    <<term, cursor, saved_cursor, panicked, last, before, print_pen, ntok, matched, budget>>

\* App::update is entered: `curr = 0`, a fresh buffer
UpdateBegin ==
    /\ app.pc = "idle"
    /\ app.nreads < MaxReads
    /\ app' = [app EXCEPT !.pc = "read", !.buff = <<>>, !.curr = 0]
    /\ UNCHANGED <<DisplayVars, seen, batch>>

\* reader.read returns Ok(n), n > 0: the bytes are behind the ones read before
ReadOk(n) ==
    /\ app.pc = "read"
    /\ app.nreads < MaxReads
    /\ n > 0 /\ n <= BuffLen - app.curr
    /\ LET chunk == [id |-> app.nreads + 1, n |-> n]
       IN app' = [app EXCEPT !.nreads = @ + 1,
                             !.buff = Append(@, chunk),
                             !.returned = Append(@, chunk),
                             !.curr = @ + n,
                             !.pc = IF app.curr + n > ReadBreak THEN "parse" ELSE "read"]
    /\ UNCHANGED <<DisplayVars, seen, batch>>

\* reader.read returns Ok(0): `return`, the buffer goes out of scope
ReadEof ==
    /\ app.pc = "read"
    /\ app.nreads < MaxReads
    /\ app' = [app EXCEPT !.nreads = @ + 1, !.buff = <<>>, !.curr = 0, !.pc = "idle"]
    /\ UNCHANGED <<DisplayVars, seen, batch>>

\* reader.read returns Err: `break`
ReadErr ==
    /\ app.pc = "read"
    /\ app.nreads < MaxReads
    /\ app' = [app EXCEPT !.nreads = @ + 1, !.pc = "parse"]
    /\ UNCHANGED <<DisplayVars, seen, batch>>

\* parser.parse(&buff[..curr], display), then the batcher reads the grid
ParseAndBatch ==
    /\ app.pc = "parse"
    /\ app' = [app EXCEPT !.forwarded = @ \o app.buff, !.buff = <<>>, !.curr = 0,
                          !.pc = "idle"]
    /\ seen' = term.data.rows
    /\ batch' = [data |-> grid_iter(term.data), out |-> prepare_render(grid_iter(term.data))]
    /\ UNCHANGED DisplayVars

(***************************************************************************)
(* Specification of the dispatcher: prints, flush points, rendition,       *)
(* cursor moves and render passes.                                         *)
(***************************************************************************)
Chars == {"A", "B"}

SgrLists == {<<0>>, <<31>>, <<48, 5, 200>>}

ExecuteTokens ==
    {CF("LineFeed"), CF("CarriageReturn"), CF("ReverseIndex"), CF("Bell"),
     CF("SaveCursorPosition")}

EscTokens == {CF("ReverseIndex"), CF("SaveCursor"), CF("RestoreCursor"), CF("DarkMode")}

CsiTokens ==
    {CFp("GraphicRendition", l) : l \in SgrLists}
    \cup {CFp("DarkMode", <<1>>), CF("SaveCursor"), CF("RestoreCursor"),
          CFp("EraseInLine", <<1>>)}

Next ==
    \/ \E c \in Chars : PrintChar(c)
    \/ \E cf \in ExecuteTokens : Execute(cf)
    \/ \E cf \in EscTokens : EscDispatch(cf)
    \/ \E cf \in CsiTokens : CsiDispatch(cf)
    \/ Render
    \/ AppUpdate
    \/ Resize(MaxRow, MaxCol)

Spec == Init /\ [][Next]_vars

(***************************************************************************)
(* Specification of the read loop of App::update: the pseudo-terminal      *)
(* answers each read with some bytes, with end of file or with an error.   *)
(***************************************************************************)
ChunkSizes == {1, 60, ReadBreak + 1}

NextRead ==
    \/ UpdateBegin
    \/ \E n \in ChunkSizes : ReadOk(n)
    \/ ReadEof
    \/ ReadErr
    \/ ParseAndBatch

SpecRead == Init /\ [][NextRead]_vars

(***************************************************************************)
(* Specification of the rendition state machine alone: parameter lists     *)
(* and DarkMode toggles dispatched to a fresh Display.                     *)
(***************************************************************************)
SgrParamLists ==
    {<<0>>, <<1>>, <<31>>, <<38>>, <<41>>, <<49>>, <<99>>, <<31, 0>>, <<0, 31>>,
     <<38, 5, 200>>, <<48, 5, 100>>, <<1, 38, 5, 9>>, <<31, 41, 38, 5, 9>>,
     <<31, 49, 41, 38, 5, 9>>, <<38, 2, 10, 20, 30>>, <<48, 2, 10, 20, 30>>,
     <<38, 2, 10>>, <<38, 2, 10, 20, 30, 40>>, <<38, 2, 38, 5, 7>>, <<5, 6, 7>>,
     <<48, 5, 2, 38, 5, 9>>, <<30>>, <<37>>, <<47>>, <<31, 32>>, <<41, 31>>, <<28>>,
     <<99, 50>>, <<1, 2, 3, 4>>, <<38, 5, 300>>, <<38, 2, 10, 20>>, <<48, 2, 10>>,
     <<48, 2, 10, 20>>, <<48, 2, 10, 20, 30, 40>>, <<38, 2, 255, 0, 255>>,
     <<48, 2, 48, 5, 7>>, <<38, 2, 5>>, <<38, 2, 38, 5>>, <<48, 2, 48, 5>>}

SelectGraphicRendition(l) == CsiDispatch(CFp("GraphicRendition", l))

SetDarkMode(d) == CsiDispatch(CFp("DarkMode", <<d>>))

NextSGR ==
    \/ \E l \in SgrParamLists : SelectGraphicRendition(l)
    \/ \E d \in {0, 1} : SetDarkMode(d)

SpecSGR == Init /\ [][NextSGR]_vars

(***************************************************************************)
(* Specification of the erase engine: cells, protected ones among them,    *)
(* enter the grid through Terminal::input; the cursor moves by Line Feed   *)
(* and Carriage Return; erases come from the dispatcher and from direct    *)
(* calls of Terminal::erase_line_range_unchecked.                          *)
(***************************************************************************)
ErasableCell ==
    [c |-> "a", fg |-> IndexBase(9), bg |-> IndexBase(0), attr |-> AttributeDefault,
     erasable |-> TRUE, dirty |-> FALSE]

ProtectedCell ==
    [c |-> "p", fg |-> IndexBase(9), bg |-> IndexBase(0), attr |-> AttributeDefault,
     erasable |-> FALSE, dirty |-> FALSE]

\* the batches Terminal::input is given: one to MaxCol cells
InputBatches == UNION {[1..n -> {ErasableCell, ProtectedCell}] : n \in 1..MaxCol}

\* Terminal::input(cursor, data)
input(t, cur, cells) ==
    LET r == input_insert(t.data, cells, cur)
    IN [term |-> [t EXCEPT !.data = r.data], cursor |-> r.cursor]

TerminalInput(cells) ==
    LET u == input(term, cursor, cells)
    IN /\ Step("input", CF("input"), {Out(u.term, u.cursor, saved_cursor)})
       /\ UNCHANGED <<seen, batch>>

\* a direct call Terminal::erase_line_range_unchecked(Line(line), lo..hi, f)
EraseLineRangeCall(line, lo, hi, f) ==
    LET e == erase_line_range_unchecked(term, line, lo, hi, f)
    IN /\ Step("erase_line_range_unchecked", CFp(f, <<line, lo, hi>>),
               {IF e.panic THEN Panic(e.term, cursor, saved_cursor)
                ELSE Out(e.term, cursor, saved_cursor)})
       /\ UNCHANGED <<seen, batch>>

LineFeed == Execute(CF("LineFeed"))

CarriageReturn == Execute(CF("CarriageReturn"))

Erase(name, flag) == CsiDispatch(CFp(name, <<flag>>))

NextErase ==
    \/ \E cells \in InputBatches : TerminalInput(cells)
    \/ LineFeed
    \/ CarriageReturn
    \/ \E name \in EditingNames, flag \in 0..3 : Erase(name, flag)
    \/ \E line \in 0..(MaxRow + 1), lo \in 0..1, f \in {"all", "erasable"} :
          EraseLineRangeCall(line, lo, lo + MaxCol, f)

InitErase == InitWith(MaxEraseCalls)

SpecErase == InitErase /\ [][NextErase]_vars

(***************************************************************************)
(* Specification of the end-to-end scenario: the tokens of the Scenario,   *)
(* in any order, for as many calls as the Scenario has.                    *)
(***************************************************************************)
ScenarioTokens == {Scenario[i] : i \in 1..Len(Scenario)}

ScenarioWith(h) == {x.tok : x \in {y \in ScenarioTokens : y.h = h}}

NextScenario ==
    \/ \E x \in ScenarioWith("print") : PrintChar(x.c)
    \/ \E x \in ScenarioWith("csi_dispatch") : CsiDispatch(x)
    \/ \E x \in ScenarioWith("execute") : Execute(x)

InitScenario == InitWith(Len(Scenario))

SpecScenario == InitScenario /\ [][NextScenario]_vars

(***************************************************************************)
(* Specification of the tokens that are accepted without effect, between   *)
(* tokens that build up a queue, a cursor position and a saved cursor.     *)
(***************************************************************************)
MaxNoOpCalls == 4

\* bell, backspace, tabs, form feed, shift states, XON/XOFF, Index, NextLine
\* and the line-size directives
AcceptedNoOps ==
    {"Bell", "Backspace", "HTab", "VTab", "SetHTab", "FormFeed",
     "LockingShift1", "LockingShift0", "SingleShift2", "SingleShift3",
     "XON", "XOFF", "Index", "NextLine",
     "DoubleTop", "DoubleBottom", "SingleWidth", "DoubleWidth"}

Payloads == {CF("dcs"), CFp("dcs", <<1>>)}

Hook(consume) ==
    /\ Step("hook", consume, hook(term, cursor, saved_cursor, consume))
    /\ UNCHANGED <<seen, batch>>

Put(consume) ==
    /\ Step("put", consume, put(term, cursor, saved_cursor, consume))
    /\ UNCHANGED <<seen, batch>>

Unhook ==
    /\ Step("unhook", CF("unhook"), unhook(term, cursor, saved_cursor))
    /\ UNCHANGED <<seen, batch>>

OscDispatch(consume) ==
    /\ Step("osc_dispatch", consume, osc_dispatch(term, cursor, saved_cursor, consume))
    /\ UNCHANGED <<seen, batch>>

NextNoOp ==
    \/ PrintChar("A")
    \/ LineFeed
    \/ CsiDispatch(CFp("GraphicRendition", <<31>>))
    \/ CsiDispatch(CF("SaveCursor"))
    \/ \E name \in AcceptedNoOps : Execute(CF(name))
    \/ \E name \in AcceptedNoOps : EscDispatch(CF(name))
    \/ \E consume \in Payloads : Hook(consume)
    \/ \E consume \in Payloads : Put(consume)
    \/ Unhook
    \/ \E consume \in Payloads : OscDispatch(consume)

InitNoOp == InitWith(MaxNoOpCalls)

SpecNoOp == InitNoOp /\ [][NextNoOp]_vars

(***************************************************************************)
(* Specification of the erase tokens in every mode, arriving with a cell   *)
(* pending, a pen set, a cursor saved and a protected cell in the grid.    *)
(***************************************************************************)
MaxFrameCalls == 5

NextFrame ==
    \/ TerminalInput(<<ProtectedCell, ErasableCell>>)
    \/ PrintChar("A")
    \/ CsiDispatch(CFp("GraphicRendition", <<31>>))
    \/ CsiDispatch(CF("SaveCursor"))
    \/ \E name \in EditingNames, flag \in 0..3 : Erase(name, flag)

InitFrame == InitWith(MaxFrameCalls)

SpecFrame == InitFrame /\ [][NextFrame]_vars

(***************************************************************************)
(* Specification of the batcher: prepare_render is given every sequence of *)
(* up to MaxBatchLen positioned cells.                                     *)
(***************************************************************************)
MaxBatchLen == 3

\* default colours, another fg, another bg, a bg beyond the colour scheme
\* (the code takes `val - 30` for the bg codes 40..47), another attribute
BatchStyles ==
    {[fg |-> IndexBase(7), bg |-> IndexBase(0), attr |-> AttributeDefault],
     [fg |-> IndexBase(1), bg |-> IndexBase(0), attr |-> AttributeDefault],
     [fg |-> IndexBase(7), bg |-> IndexBase(11), attr |-> AttributeDefault],
     [fg |-> IndexBase(7), bg |-> IndexBase(16), attr |-> AttributeDefault],
     [fg |-> IndexBase(7), bg |-> IndexBase(0), attr |-> "Bold"]}

BatchPositions == {<<0, 0>>, <<0, 1>>, <<1, 0>>}

PositionedCells ==
    {[line |-> at[1], col |-> at[2],
      cell |-> [c |-> c, fg |-> style.fg, bg |-> style.bg, attr |-> style.attr,
                erasable |-> TRUE, dirty |-> FALSE]] :
        at \in BatchPositions, c \in Chars, style \in BatchStyles}

\* the inputs of the next call: no cell, or the cells of the last call and
\* one more, up to MaxBatchLen cells
BatchInputs ==
    {<<>>} \cup {Append(batch.data, p) : p \in {q \in PositionedCells :
                                                  Len(batch.data) < MaxBatchLen}}

\* a call Renderer::prepare_render(data)
PrepareRender(data) ==
    /\ batch' = [data |-> data, out |-> prepare_render(data)]
    /\ UNCHANGED <<DisplayVars, seen, app>>

NextBatch == \E data \in BatchInputs : PrepareRender(data)

SpecBatch == Init /\ [][NextBatch]_vars

(***************************************************************************)
(* Specification of scrolling: prints, line feeds, carriage returns and    *)
(* render passes, long enough to push rows out of the history.             *)
(***************************************************************************)
MaxScrollCalls == 7

NextScroll ==
    \/ \E c \in Chars : PrintChar(c)
    \/ LineFeed
    \/ CarriageReturn
    \/ Render

InitScroll == InitWith(MaxScrollCalls)

SpecScroll == InitScroll /\ [][NextScroll]_vars

(***************************************************************************)
(* Claims.                                                                 *)
(***************************************************************************)
IsFlushPoint ==
    \/ last.h \in {"execute", "esc_dispatch"} /\ last.tok.name \in {"LineFeed", "CarriageReturn"}
    \/ last.h = "render"

\* the number of rows a flush of n cells from cursor cur scrolls the viewport
FlushScroll(cur, n) ==
    LET end == cur.line + ((cur.column + n - 1) \div MaxCol)
    IN IF end >= MaxRow THEN end - MaxRow + 1 ELSE 0

\* the grid position of the i-th cell of a flush from cursor cur, the
\* viewport having scrolled k rows
FlushLine(cur, i, k) == cur.line + ((cur.column + i - 1) \div MaxCol) - k
FlushColumn(cur, i) == (cur.column + i - 1) % MaxCol

\* C1: at a flush point (Line Feed, Carriage Return, render) every cell that
\* is committed to the grid holds the character of its Print token and the
\* fg, bg and attribute the pen had when that token was processed, whatever
\* the pen is at the flush.
C1_CommittedCellKeepsPrintPen ==
    (IsFlushPoint /\ ~panicked /\ before.cursor.line <= ntok) =>
        LET q == before.term.write_stack
            k == FlushScroll(before.cursor, Len(q))
        IN \A i \in 1..Len(q) :
              FlushLine(before.cursor, i, k) >= 0 =>
                 LET cell == term.data.rows[FlushLine(before.cursor, i, k) + 1]
                                           [FlushColumn(before.cursor, i) + 1]
                 IN /\ cell.c = q[i].c
                    /\ Pen(cell) = before.print_pen[i]

\* a flush that commits a cell printed under a pen the terminal no longer has
C1_Witness ==
    /\ IsFlushPoint /\ ~panicked
    /\ Len(before.term.write_stack) >= 2
    /\ before.print_pen[1] # Pen(before.term)
    /\ Pen(term.data.rows[1][1]) = before.print_pen[1]

IsBatchPass == last.h \in {"render", "update"}

\* C3: whenever the batcher reads the grid rows (Display::render, or
\* Renderer::prepare_render called by App::update) the write queue is empty.
C3_BatcherSeesFlushedGrid == IsBatchPass => term.write_stack = <<>>

IsRendition == last.h = "csi_dispatch" /\ last.tok.name = "GraphicRendition"

ListedControls == ExecuteNoOps \cup {"LineFeed", "CarriageReturn", "ReverseIndex"}

Unchanged ==
    /\ term = before.term
    /\ cursor = before.cursor
    /\ saved_cursor = before.saved_cursor

\* C5: a control function that execute_control does not list, delivered
\* through execute or escape-dispatch, returns normally and changes nothing.
C5_UnlistedTokenIsDropped ==
    (last.h \in {"execute", "esc_dispatch"} /\ last.tok.name \notin ListedControls) =>
        (~panicked /\ Unchanged)

IsReverseIndex ==
    last.h \in {"execute", "esc_dispatch"} /\ last.tok.name = "ReverseIndex"

\* C6: the cursor line never wraps below 0, and Reverse Index at line 0
\* returns with the line still 0.
C6_ReverseIndexClampsAtZero ==
    /\ cursor.line <= ntok
    /\ (IsReverseIndex /\ before.cursor.line = 0) => (~panicked /\ cursor.line = 0)

DefaultPen == [fg |-> IndexBase(7), bg |-> IndexBase(0), attr |-> AttributeDefault]

\* C9: the parameter list [0] leaves the pen at fg = base index 7,
\* bg = base index 0, attribute = normal, whatever lists came before.
C9_ResetAlwaysWins ==
    (IsRendition /\ last.tok.params = <<0>>) => Pen(term) = DefaultPen

\* a reset of a pen that held an extended foreground and a changed background
C9_Witness ==
    /\ IsRendition /\ last.tok.params = <<0>>
    /\ before.term.fg.tag \in {"Index256", "Rgba"}
    /\ before.term.bg # IndexBase(0)
    /\ Pen(term) = DefaultPen

\* the leading parameters of a list that ends in a triple
Leading(r) == SubSeq(r, 1, Len(r) - 3)

EndsIn385(r) == Len(r) >= 4 /\ r[Len(r) - 2] = 38 /\ r[Len(r) - 1] = 5

IsLineErase ==
    /\ last.h = "csi_dispatch"
    /\ \/ last.tok.name \in {"EraseInLine", "SelectiveEraseLine"} /\ last.tok.params[1] \in 0..2
       \/ last.tok.name \in {"EraseInDisplay", "SelectiveEraseDisplay"}
            /\ last.tok.params[1] \in 0..1

IsEraseCall == last.h = "erase_line_range_unchecked"

\* C7: an erase that refers to a line index at or beyond the number of grid
\* rows (the cursor line of an erase token, the line argument of
\* erase_line_range_unchecked) returns without failing and changes no cell.
C7_EraseBeyondGridIsNoOp ==
    /\ (IsLineErase /\ before.cursor.line >= GridLen(before.term.data)) =>
          (~panicked /\ term.data = before.term.data)
    /\ (IsEraseCall /\ last.tok.params[1] >= GridLen(before.term.data)) =>
          (~panicked /\ term.data = before.term.data)

\* the only protected cell of row r is at index k, strictly inside the row
OnlyProtectedAt(r, k) ==
    /\ k > 1 /\ k < Len(r)
    /\ \A i \in 1..Len(r) : r[i].erasable = (i # k)

IsSelectiveWholeLine ==
    /\ last.h = "csi_dispatch" /\ last.tok.name = "SelectiveEraseLine"
    /\ \/ last.tok.params[1] = 2
       \/ last.tok.params[1] = 0 /\ before.cursor.column = 0
    /\ before.cursor.line < GridLen(before.term.data)

ScenarioDone == matched = Len(Scenario)

DefaultCell(c) ==
    [c |-> c, fg |-> IndexBase(7), bg |-> IndexBase(0), attr |-> AttributeDefault,
     erasable |-> TRUE, dirty |-> FALSE]

\* C2: from a fresh Display the tokens Print A, SGR [31], Print B, SGR [0],
\* Print C, Carriage Return, Line Feed commit exactly three cells, on row 0
\* in the order A, B, C, with A and C in the default foreground (base index
\* 7) and B in the foreground code 31 selects, and leave the cursor at line
\* 1, column 0 with an empty write queue.
C2_EndToEndScenario ==
    ScenarioDone =>
        /\ ~panicked
        /\ term.data.rows[1][1] = DefaultCell("A")
        /\ term.data.rows[1][2] = [DefaultCell("B") EXCEPT !.fg = IndexBase(31 - 30 + 8)]
        /\ term.data.rows[1][3] = DefaultCell("C")
        /\ \A i \in 1..MaxRow, j \in 1..MaxCol :
              (i > 1 \/ j > 3) => term.data.rows[i][j] = BlankCell
        /\ term.data.history = <<>>
        /\ cursor = Cursor(1, 0)
        /\ term.write_stack = <<>>

\* the scenario has run to its end and B is committed in its own colour
C2_Witness ==
    /\ ScenarioDone
    /\ last.tok.name = "LineFeed"
    /\ term.data.rows[1][2].c = "B"
    /\ term.data.rows[1][2].fg # term.data.rows[1][1].fg

(***************************************************************************)
(* Rendition state machine: palette codes, extended and direct colours.    *)
(***************************************************************************)
Params == last.tok.params

LastParam == Params[Len(Params)]

IsShortForm == IsRendition /\ Len(Params) >= 1 /\ Len(Params) <= 2

EndsIn485(r) == Len(r) >= 3 /\ r[Len(r) - 2] = 48 /\ r[Len(r) - 1] = 5

\* C11: a list ending in the triple 48,5,N sets the background to
\* ExtendedPalette(N) and leaves the foreground as the leading parameters
\* left it.
C11_Trailing485SetsBackground ==
    (IsRendition /\ EndsIn485(Params)) =>
        /\ term.bg = Index256(LastParam)
        /\ term.fg = rendition(before.term, Leading(Params)).fg

\* the base-palette index of the code at offset k of its range
PaletteIndex(dark, k) == IF dark THEN k ELSE k + 8

\* C12: in a short-form list a background code v in 40..47 sets the
\* background to the base-palette index v - 40 in dark mode and v - 40 + 8 in
\* light mode, an index in 0..15, and background codes alone leave the
\* foreground unchanged.
C12_BackgroundCodeSelectsPaletteHalf ==
    (IsShortForm /\ LastParam \in 40..47) =>
        /\ term.bg = IndexBase(PaletteIndex(before.term.dark_mode, LastParam - 40))
        /\ term.bg.index \in 0..15
        /\ (\A i \in 1..Len(Params) : Params[i] \in 40..47) => term.fg = before.term.fg

\* C13: in a short-form list a foreground code v in 30..37 sets the
\* foreground to BasePalette(v - 30) in dark mode and BasePalette(v - 30 + 8)
\* in light mode, and foreground codes alone leave the background unchanged.
C13_ForegroundCodeSelectsPaletteHalf ==
    (IsShortForm /\ LastParam \in 30..37) =>
        /\ term.fg = IndexBase(PaletteIndex(before.term.dark_mode, LastParam - 30))
        /\ (\A i \in 1..Len(Params) : Params[i] \in 30..37) => term.bg = before.term.bg

\* a foreground code applied in dark mode over a changed background
C13_Witness ==
    /\ IsRendition /\ Params = <<31>>
    /\ before.term.dark_mode
    /\ before.term.bg # IndexBase(0)
    /\ term.fg = IndexBase(1)
    /\ term.bg = before.term.bg

\* C14: after any sequence of parameter lists and DarkMode toggles the pen
\* foreground and background are a base-palette colour with index in 0..15,
\* an extended-palette colour with index in 0..255 or a direct colour, so
\* that Renderer::to_rgba resolves them without leaving its tables.
C14_PenColoursResolve ==
    /\ ~to_rgba(term.fg).panic
    /\ ~to_rgba(term.bg).panic
    /\ \A i \in 1..Len(term.write_stack) :
          ~to_rgba(term.write_stack[i].fg).panic /\ ~to_rgba(term.write_stack[i].bg).panic

IsDirectColour(r) == Len(r) >= 3 /\ r[1] \in {38, 48} /\ r[2] = 2

ChannelsInRange(r) == \A i \in 3..Len(r) : r[i] \in 0..255

\* the pen after a direct colour: 38 names the foreground, 48 the background
DirectColourApplied(col) ==
    IF Params[1] = 38 THEN term.fg = col /\ term.bg = before.term.bg
    ELSE term.bg = col /\ term.fg = before.term.fg

\* C15: for all channel values in 0..255 the list [38,2,r,g,b] sets the
\* foreground to Direct(r,g,b,255) and [48,2,r,g,b] the background, a sixth
\* parameter is the alpha, and no channel values turn the list into another
\* form.
C15_DirectColourForAllChannels ==
    (IsRendition /\ IsDirectColour(Params) /\ Len(Params) \in 5..6 /\ ChannelsInRange(Params)) =>
        DirectColourApplied(Rgba(Params[3], Params[4], Params[5],
                                 IF Len(Params) = 6 THEN Params[6] ELSE 255))

\* C16: a direct-colour list that is too short gets defaults for its missing
\* channels: [38,2,r] gives the foreground Direct(r,0,0,255), [38,2,r,g]
\* gives Direct(r,g,0,255), and likewise 48,2 for the background.
C16_ShortDirectColourDefaults ==
    (IsRendition /\ IsDirectColour(Params) /\ Len(Params) \in 3..4 /\ ChannelsInRange(Params)) =>
        DirectColourApplied(Rgba(Params[3], IF Len(Params) = 4 THEN Params[4] ELSE 0, 0, 255))

\* a one-channel background over a background that was something else
C16_Witness ==
    /\ IsRendition /\ Params = <<48, 2, 10>>
    /\ before.term.bg # Rgba(10, 0, 0, 255)
    /\ before.term.fg # IndexBase(7)
    /\ term.bg = Rgba(10, 0, 0, 255)

\* C17: a list of two entries has the effect of its first entry as a list of
\* its own followed by its second entry as a list of its own; [31,0] ends at
\* the default pen and [0,31] with the foreground 31 selects.
C17_PairIsTwoSingles ==
    /\ (IsRendition /\ Len(Params) = 2) =>
          term = rendition(rendition(before.term, <<Params[1]>>), <<Params[2]>>)
    /\ (IsRendition /\ Params = <<31, 0>>) => Pen(term) = DefaultPen
    /\ (IsRendition /\ Params = <<0, 31>>) =>
          Pen(term) = [DefaultPen EXCEPT
                          !.fg = IndexBase(PaletteIndex(before.term.dark_mode, 1))]

\* [0,31] over a pen that held an extended foreground and a changed background
C17_Witness ==
    /\ IsRendition /\ Params = <<0, 31>>
    /\ before.term.fg.tag = "Index256"
    /\ before.term.bg # IndexBase(0)
    /\ term.fg = IndexBase(9)
    /\ term.bg = IndexBase(0)

\* the values the short-form match has an arm for
ShortRuleValues == {0} \cup (1..27) \cup (30..37) \cup {38} \cup (40..47) \cup {49}

MatchesNoRule(r) ==
    \/ Len(r) \in 1..2 /\ \A i \in 1..Len(r) : r[i] \notin ShortRuleValues
    \/ /\ Len(r) > 2
       /\ ~(r[Len(r) - 1] = 5 /\ r[Len(r) - 2] \in {38, 48})
       /\ ~IsDirectColour(r)

\* C18: a short-form list of values outside {0, 1..27, 30..37, 38, 40..47, 49}
\* and a list of more than two entries that matches no structured form leave
\* foreground, background and attribute as they were.
C18_UnmatchedInputIsNoOp ==
    (IsRendition /\ MatchesNoRule(Params)) => term = before.term

\* an unknown value met a pen that was not the default one
C18_Witness ==
    /\ IsRendition /\ Params = <<99>>
    /\ before.term.fg # IndexBase(7)
    /\ before.term.bg # IndexBase(0)
    /\ Pen(term) = Pen(before.term)

\* C19: a short-form parameter in 1..27 sets the pen attribute; parameter 1
\* (bold) on a pen of normal attribute leaves an attribute other than normal.
C19_AttributeCodeSetsAttribute ==
    (IsRendition /\ Params = <<1>>) => term.attr # AttributeDefault

(***************************************************************************)
(* Saved cursor.                                                           *)
(***************************************************************************)
IsCsi(names) == last.h = "csi_dispatch" /\ last.tok.name \in names

\* C20: Save-Cursor stores the current cursor in the saved slot;
\* Restore-Cursor with a snapshot makes it the live cursor and empties the
\* slot; Restore-Cursor with an empty slot changes nothing.
C20_SaveAndRestoreCursor ==
    /\ IsCsi({"SaveCursor", "SaveCursorPosition"}) =>
          /\ ~panicked
          /\ saved_cursor = Some(before.cursor)
          /\ cursor = before.cursor
          /\ term = before.term
    /\ (IsCsi({"RestoreCursor", "RestoreSavedCursor"}) /\ before.saved_cursor # None) =>
          /\ ~panicked
          /\ cursor = before.saved_cursor.value
          /\ saved_cursor = None
          /\ term = before.term
    /\ (IsCsi({"RestoreCursor", "RestoreSavedCursor"}) /\ before.saved_cursor = None) =>
          /\ ~panicked
          /\ cursor = before.cursor
          /\ saved_cursor = None
          /\ term = before.term

\* a Restore-Cursor brought the cursor back from where it had moved to
C20_Witness ==
    /\ IsCsi({"RestoreCursor", "RestoreSavedCursor"})
    /\ before.saved_cursor # None
    /\ before.cursor # before.saved_cursor.value
    /\ cursor = before.saved_cursor.value
    /\ saved_cursor = None

IsControl(h, names) == last.h = h /\ last.tok.name \in names

CursorOps == {"SaveCursor", "RestoreCursor"}

\* the state the last handler left, as an outcome
Outcome ==
    [term |-> term, cursor |-> cursor, saved_cursor |-> saved_cursor, panic |-> panicked]

\* C21: Save-Cursor and Restore-Cursor act the same on the cursor and the
\* saved slot whether they arrive through escape-dispatch or through
\* CSI-dispatch: the state either handler leaves is the state the other one
\* leaves from the same start.
C21_SaveRestoreSameThroughEscAndCsi ==
    (IsControl("esc_dispatch", CursorOps) \/ IsControl("csi_dispatch", CursorOps)) =>
        /\ Outcome \in csi_dispatch(before.term, before.cursor, before.saved_cursor, last.tok)
        /\ Outcome \in execute_control(before.term, before.cursor, before.saved_cursor, last.tok)

(***************************************************************************)
(* Flush points and Print.                                                 *)
(***************************************************************************)
IsExecuted(name) == last.h \in {"execute", "esc_dispatch"} /\ last.tok.name = name

\* the commit a flush point starts with
Committed == update(before.term, before.cursor)

\* the pending cells fit into the cursor row: they are committed side by side
QueueFitsRow ==
    /\ before.cursor.line < MaxRow
    /\ before.cursor.column + Len(before.term.write_stack) <= MaxCol

QueueIsInRow ==
    QueueFitsRow =>
        \A i \in 1..Len(before.term.write_stack) :
            term.data.rows[before.cursor.line + 1][before.cursor.column + i]
                = before.term.write_stack[i]

\* C22: Line Feed commits every pending cell at the cursor and leaves the
\* queue empty, then sets the column to 0 and the line to one more than the
\* line the commit ended on (a line below the largest usize).
C22_LineFeedCommitsThenAdvances ==
    (IsExecuted("LineFeed") /\ Committed.cursor.line < UsizeMax) =>
        /\ ~panicked
        /\ term.write_stack = <<>>
        /\ term = Committed.term
        /\ QueueIsInRow
        /\ cursor = Cursor(Committed.cursor.line + 1, 0)
        /\ saved_cursor = before.saved_cursor

\* a Line Feed committed a pending cell away from column 0
C22_Witness ==
    /\ IsExecuted("LineFeed")
    /\ before.term.write_stack # <<>>
    /\ before.cursor.column > 0
    /\ QueueFitsRow
    /\ term.write_stack = <<>>
    /\ cursor = Cursor(before.cursor.line + 1, 0)

\* C23: Carriage Return commits every pending cell and leaves the queue
\* empty, then sets the column to 0 and keeps the line the commit ended on.
C23_CarriageReturnCommitsThenHome ==
    IsExecuted("CarriageReturn") =>
        /\ ~panicked
        /\ term.write_stack = <<>>
        /\ term = Committed.term
        /\ QueueIsInRow
        /\ cursor = Cursor(Committed.cursor.line, 0)
        /\ saved_cursor = before.saved_cursor

\* a Carriage Return committed pending cells and came back to column 0
C23_Witness ==
    /\ IsExecuted("CarriageReturn")
    /\ Len(before.term.write_stack) >= 2
    /\ QueueFitsRow
    /\ term.write_stack = <<>>
    /\ term.data.rows[before.cursor.line + 1][before.cursor.column + 2].c # " "
    /\ cursor = Cursor(before.cursor.line, 0)

\* C24: a Print appends exactly one cell, with the printed character and the
\* current pen, to the end of the write queue; the grid, the cursor, the saved
\* cursor and the pen are unchanged.
C24_PrintOnlyAppendsToQueue ==
    last.h = "print" =>
        /\ ~panicked
        /\ term = [before.term EXCEPT !.write_stack =
                      Append(@, [c |-> last.tok.c, fg |-> before.term.fg,
                                 bg |-> before.term.bg, attr |-> before.term.attr,
                                 erasable |-> TRUE, dirty |-> FALSE])]
        /\ cursor = before.cursor
        /\ saved_cursor = before.saved_cursor

\* a Print with a changed pen behind a cell that was already pending
C24_Witness ==
    /\ last.h = "print"
    /\ before.term.write_stack # <<>>
    /\ before.term.fg # IndexBase(7)
    /\ Len(term.write_stack) = Len(before.term.write_stack) + 1
    /\ term.write_stack[Len(term.write_stack)].fg = before.term.fg
    /\ term.data = GridNew

(***************************************************************************)
(* Unconditional erases.                                                   *)
(***************************************************************************)
IsErase(name) ==
    /\ last.h = "csi_dispatch" /\ last.tok.name = name
    /\ last.tok.params[1] \in 0..2
    /\ before.cursor.line < GridLen(before.term.data)

\* the cell at row i, column j (from 0) is in the range of Erase-in-Display
InDisplayRange(flag, cur, i, j) ==
    CASE flag = 0 -> i > cur.line \/ (i = cur.line /\ j >= cur.column)
      [] flag = 1 -> i < cur.line \/ (i = cur.line /\ j < cur.column)
      [] flag = 2 -> TRUE

\* the cell at row i, column j (from 0) is in the range of Erase-in-Line
InLineRange(flag, cur, i, j) ==
    /\ i = cur.line
    /\ CASE flag = 0 -> j >= cur.column
         [] flag = 1 -> j < cur.column
         [] flag = 2 -> TRUE

\* the cells of the grid are the erased ones where In holds, the old ones elsewhere
ErasedExactly(In(_, _)) ==
    /\ ~panicked
    /\ cursor = before.cursor
    /\ term.data.history = before.term.data.history
    /\ \A i \in 1..GridLen(before.term.data) :
          \A j \in 1..Len(before.term.data.rows[i]) :
              term.data.rows[i][j] =
                  IF In(i - 1, j - 1) THEN erase_cell(before.term.data.rows[i][j])
                  ELSE before.term.data.rows[i][j]

\* C25: Erase-in-Display with the cursor at line L, column c of the grid
\* erases exactly: in mode 0 the columns from c to the end of row L and every
\* row below L; in mode 1 every row above L and the columns of row L before
\* c; in mode 2 every row. Every other cell keeps what it held.
C25_EraseInDisplayRange ==
    IsErase("EraseInDisplay") =>
        LET In(i, j) == InDisplayRange(last.tok.params[1], before.cursor, i, j)
        IN ErasedExactly(In)

\* mode 0 from the middle of the first row: the cell before the cursor stays,
\* the rest of the row and the row below are erased
C25_Witness ==
    /\ IsErase("EraseInDisplay") /\ last.tok.params[1] = 0
    /\ before.cursor = Cursor(0, 1)
    /\ term.data.rows[1][1].c = "p"
    /\ term.data.rows[1][2].dirty
    /\ \A j \in 1..MaxCol : term.data.rows[2][j].dirty

\* C26: Erase-in-Line with the cursor at line L, column c of the grid touches
\* only row L and erases exactly: in mode 0 the columns from c to the end of
\* the row; in mode 1 the columns before c; in mode 2 the whole row. Modes 0
\* and 1 at one cursor erase together what mode 2 erases.
C26_EraseInLineRange ==
    IsErase("EraseInLine") =>
        LET In(i, j) == InLineRange(last.tok.params[1], before.cursor, i, j)
            m0 == erase_in_line(before.term, before.cursor, 0, "all").term
            m01 == erase_in_line(m0, before.cursor, 1, "all").term
            m2 == erase_in_line(before.term, before.cursor, 2, "all").term
        IN /\ ErasedExactly(In)
           /\ m01 = m2

\* mode 1 behind a committed cell: the cell is erased, the cursor column and
\* the row below are not touched
C26_Witness ==
    /\ IsErase("EraseInLine") /\ last.tok.params[1] = 1
    /\ before.cursor.column \in 1..(MaxCol - 1)
    /\ before.term.data.rows[before.cursor.line + 1][1].c # " "
    /\ term.data.rows[before.cursor.line + 1][1].c = " "
    /\ ~term.data.rows[before.cursor.line + 1][before.cursor.column + 1].dirty

IsAnyErase ==
    \/ last.h = "csi_dispatch" /\ last.tok.name \in EditingNames
    \/ last.h = "erase_line_range_unchecked"

\* what an erase leaves of a cell
ErasedCell(cell) ==
    [c |-> " ", fg |-> IndexBase(7), bg |-> IndexBase(0), attr |-> AttributeDefault,
     erasable |-> cell.erasable, dirty |-> TRUE]

\* C27: every cell an erase matches ends as a space with fg = base index 7,
\* bg = base index 0, normal attribute and dirty set, whatever it held; an
\* unconditional erase matches every cell of its range, protected ones too.
C27_ErasedCellIsBlankAndDirty ==
    /\ IsAnyErase =>
          \A i \in 1..GridLen(before.term.data) :
              \A j \in 1..Len(before.term.data.rows[i]) :
                  \/ term.data.rows[i][j] = before.term.data.rows[i][j]
                  \/ term.data.rows[i][j] = ErasedCell(before.term.data.rows[i][j])
    /\ (IsErase("EraseInLine") /\ last.tok.params[1] = 2) =>
          \A j \in 1..MaxCol :
              term.data.rows[before.cursor.line + 1][j]
                  = ErasedCell(before.term.data.rows[before.cursor.line + 1][j])
    /\ (IsErase("EraseInDisplay") /\ last.tok.params[1] = 2) =>
          \A i \in 1..MaxRow : \A j \in 1..MaxCol :
              term.data.rows[i][j] = ErasedCell(before.term.data.rows[i][j])

\* an unconditional erase of a row took a coloured protected cell with it
C27_Witness ==
    /\ IsErase("EraseInLine") /\ last.tok.params[1] = 2
    /\ \E j \in 1..MaxCol :
          /\ before.term.data.rows[before.cursor.line + 1][j] = ProtectedCell
          /\ term.data.rows[before.cursor.line + 1][j] = ErasedCell(ProtectedCell)

(***************************************************************************)
(* Resize, the read loop, and the runs of render_line.                     *)
(***************************************************************************)
\* C28: Terminal::resize runs on a committed state: the write queue is empty
\* when the grid is resized, pending cells having been committed first.
C28_ResizeRunsOnCommittedState ==
    last.h = "resize" => (~panicked /\ term.write_stack = <<>>)

\* C29: when a call of App::update has ended, every byte its reads returned
\* has been handed to the tokenizer once and in read order, also when the
\* reading ended with a zero-length read.
C29_EveryByteReadIsForwarded ==
    app.pc = "idle" => app.forwarded = app.returned

RECURSIVE RunsText(_)
RunsText(runs) == IF runs = <<>> THEN <<>> ELSE Head(runs).text \o RunsText(Tail(runs))

RECURSIVE RunsColours(_)
RunsColours(runs) ==
    IF runs = <<>> THEN <<>>
    ELSE [i \in 1..Len(Head(runs).text) |-> Head(runs).color] \o RunsColours(Tail(runs))

\* runs partition row into maximal stretches of one foreground colour
IsRunPartition(runs, row) ==
    /\ \A k \in 1..Len(runs) : runs[k].text # <<>>
    /\ \A k \in 1..(Len(runs) - 1) : runs[k].color # runs[k + 1].color
    /\ RunsText(runs) = [i \in 1..Len(row) |-> row[i].c]
    /\ RunsColours(runs) = [i \in 1..Len(row) |-> row[i].fg]

\* C30: the runs Display::render_line builds of each row it is given hold
\* consecutive cells of one fg colour each, adjacent runs differ in colour,
\* no run is empty, and the runs in order spell the row in column order.
C30_RunsPartitionTheRow ==
    last.h = "render" =>
        \A i \in 1..Len(seen) : IsRunPartition(fg_runs(seen[i]), seen[i])

\* a rendered row of several runs, one of them longer than a cell, above a
\* row that is a single run
C30_Witness ==
    /\ last.h = "render"
    /\ Len(fg_runs(seen[1])) >= 2
    /\ \E k \in 1..Len(fg_runs(seen[1])) : Len(fg_runs(seen[1])[k].text) >= 2
    /\ Len(fg_runs(seen[2])) = 1

(***************************************************************************)
(* Glyph placement and scale.                                              *)
(***************************************************************************)
\* the grid column of the first cell of run r
RECURSIVE RunStart(_, _)
RunStart(runs, r) == IF r <= 1 THEN 0 ELSE RunStart(runs, r - 1) + Len(runs[r - 1].text)

\* P holds of every glyph of every row of the last render pass, for every font
EveryGlyph(P(_, _)) ==
    \A font \in Fonts : \A i \in 1..Len(seen) :
        LET glyphs == render_line(seen[i], font)
        IN \A k \in 1..Len(glyphs) : P(glyphs[k], fg_runs(seen[i]))

SomeGlyph(P(_, _)) ==
    \E font \in Fonts : \E i \in 1..Len(seen) :
        LET glyphs == render_line(seen[i], font)
        IN \E k \in 1..Len(glyphs) : P(glyphs[k], fg_runs(seen[i]))

\* C31: the i-th glyph of a colour run is drawn at the cell column (run start
\* column + i), also behind a run that was shaped into fewer glyphs than it
\* has characters.
C31_GlyphColumnFollowsRunStart ==
    last.h = "render" =>
        LET AtColumn(g, runs) == g.curr_col = RunStart(runs, g.run) + g.index
        IN EveryGlyph(AtColumn)

\* the fraction s equals num / den
ScaleIs(s, num, den) == s.num * den = num * s.den

ScrolledOut(line) == IF line >= MaxRow THEN line - MaxRow + 1 ELSE 0

\* the history a flush must leave: the newest HistoryCap rows of what the
\* history held followed by the rows pushed out of the viewport
HistoryAfterFlush ==
    LET h == Len(before.term.data.history)
        k == ScrolledOut(before.cursor.line)
        full == before.term.data.history \o before.term.data.rows \o [i \in 1..k |-> BlankRow]
        first == IF h + k > HistoryCap THEN h + k - HistoryCap + 1 ELSE 1
    IN SubSeq(full, first, h + k)

\* a flush of cells that are committed side by side on the cursor line
FlushesIntoOneRow ==
    /\ IsFlushPoint
    /\ ~panicked
    /\ before.term.write_stack # <<>>
    /\ before.cursor.column + Len(before.term.write_stack) <= MaxCol

IsAcceptedNoOp ==
    \/ last.h \in {"execute", "esc_dispatch"} /\ last.tok.name \in AcceptedNoOps
    \/ last.h \in {"hook", "put", "unhook", "osc_dispatch"}

\* C34: bell, backspace, tabs, form feed, shift states, XON/XOFF, Index,
\* NextLine, the line-size directives, hook, put, unhook and OS-command
\* dispatch leave the grid, the pen, the write queue, the cursor and the
\* saved cursor exactly as they were, and do not panic.
C34_AcceptedNoOpsChangeNothing ==
    IsAcceptedNoOp =>
        /\ ~panicked
        /\ term = before.term
        /\ cursor = before.cursor
        /\ saved_cursor = before.saved_cursor

\* a Backspace arrived with a cell pending, a pen set, the cursor moved and a
\* cursor saved
C34_Witness ==
    /\ IsExecuted("Backspace")
    /\ before.term.write_stack # <<>>
    /\ before.cursor # Cursor(0, 0)
    /\ before.saved_cursor # None
    /\ term = before.term

(***************************************************************************)
(* Flushes at cursor moves and erases.                                     *)
(***************************************************************************)
\* the last token moved the cursor
IsCursorMove ==
    \/ IsExecuted("LineFeed")
    \/ IsExecuted("CarriageReturn")
    \/ IsExecuted("ReverseIndex")
    \/ IsCsi({"RestoreCursor"})

\* C35: every opcode that moves the cursor (Reverse Index and Restore-Cursor
\* as well as Line Feed and Carriage Return) commits the pending cells at the
\* cursor they were printed at before it moves the cursor: it leaves the
\* queue empty and the grid as the commit left it.
C35_CursorMovesFlushFirst ==
    (IsCursorMove /\ ~panicked) =>
        /\ term.write_stack = <<>>
        /\ term.data = Committed.term.data

\* C36: an Erase-in-Line or Erase-in-Display token acts on a grid that holds
\* every character printed before it: no cell is pending when it has run, and
\* every cell of its range is blank, the cells printed just before it included.
C36_EraseActsOnCommittedPrints ==
    (IsCsi({"EraseInLine", "EraseInDisplay"}) /\ ~panicked
        /\ last.tok.params \in {<<0>>, <<1>>, <<2>>} /\ Committed.cursor.line < MaxRow) =>
        /\ term.write_stack = <<>>
        /\ \A i \in 0..(MaxRow - 1), j \in 0..(MaxCol - 1) :
              LET flag == last.tok.params[1]
                  InRange == IF last.tok.name = "EraseInLine"
                             THEN InLineRange(flag, Committed.cursor, i, j)
                             ELSE InDisplayRange(flag, Committed.cursor, i, j)
              IN InRange => term.data.rows[i + 1][j + 1].c = " "

(***************************************************************************)
(* Selective Erase-in-Display, row by row.                                 *)
(***************************************************************************)
\* the cell at row i, column j (from 0) is in the range of the erase and no
\* cell of the range in row i, from the start of the range up to column j, is
\* protected
BeforeFirstProtected(flag, cur, i, j) ==
    /\ InDisplayRange(flag, cur, i, j)
    /\ \A k \in 0..j :
          InDisplayRange(flag, cur, i, k) => before.term.data.rows[i + 1][k + 1].erasable

\* C37: Selective Erase-in-Display clears, in every row of its range, exactly
\* the cells before that row's first protected cell, each row on its own and
\* the cursor row by the same rule as the other rows.
C37_SelectiveDisplayStopsInEveryRow ==
    IsErase("SelectiveEraseDisplay") =>
        LET In(i, j) == BeforeFirstProtected(last.tok.params[1], before.cursor, i, j)
        IN ErasedExactly(In)

(***************************************************************************)
(* The write queue.                                                        *)
(***************************************************************************)
\* C38: the write queue is first-in first-out and consumed exactly once: a
\* Print appends its cell behind the pending ones and leaves the grid alone;
\* a flush (Line Feed, Carriage Return, render) hands the pending cells to
\* the grid in the order of their Prints and leaves the queue empty, so that
\* no later flush commits them again; cells that fit the cursor row are
\* found side by side from the cursor on and no other cell changes.
C38_QueueIsFifoAndConsumedOnce ==
    /\ (last.h = "print" /\ ~panicked) =>
          /\ term.write_stack
                = Append(before.term.write_stack, NewCell(before.term, last.tok.c))
          /\ term.data = before.term.data
    /\ (IsFlushPoint /\ ~panicked) =>
          /\ term.write_stack = <<>>
          /\ term.data
                = input_insert(before.term.data, before.term.write_stack, before.cursor).data
          /\ QueueFitsRow =>
                /\ term.data.history = before.term.data.history
                /\ \A i \in 1..MaxRow, j \in 1..MaxCol :
                      term.data.rows[i][j] =
                          IF /\ i = before.cursor.line + 1
                             /\ j > before.cursor.column
                             /\ j <= before.cursor.column + Len(before.term.write_stack)
                          THEN before.term.write_stack[j - before.cursor.column]
                          ELSE before.term.data.rows[i][j]

\* a flush committed two different pending cells, in the order of their
\* Prints, into a grid that held an earlier commit, and emptied the queue
C38_Witness ==
    /\ IsFlushPoint /\ ~panicked
    /\ QueueFitsRow
    /\ Len(before.term.write_stack) = 2
    /\ before.term.write_stack[1].c = "A" /\ before.term.write_stack[2].c = "B"
    /\ before.cursor.line = 1
    /\ before.term.data.rows[1][1].c # " "
    /\ term.data.rows[2][before.cursor.column + 1].c = "A"
    /\ term.data.rows[2][before.cursor.column + 2].c = "B"
    /\ term.write_stack = <<>>

(***************************************************************************)
(* What an erase leaves alone.                                             *)
(***************************************************************************)
\* C39: every Erase-in-Line, Erase-in-Display and selective variant, in
\* every mode, leaves the cursor, the saved cursor, the pen (fg, bg,
\* attribute, dark_mode), the write queue, the history, the number of rows,
\* the length of every row and the protected flag of every cell unchanged.
C39_EraseChangesOnlyCells ==
    IsCsi(EditingNames) =>
        /\ cursor = before.cursor
        /\ saved_cursor = before.saved_cursor
        /\ Pen(term) = Pen(before.term)
        /\ term.dark_mode = before.term.dark_mode
        /\ term.write_stack = before.term.write_stack
        /\ term.data.history = before.term.data.history
        /\ Len(term.data.rows) = Len(before.term.data.rows)
        /\ \A i \in 1..Len(before.term.data.rows) :
              /\ Len(term.data.rows[i]) = Len(before.term.data.rows[i])
              /\ \A j \in 1..Len(before.term.data.rows[i]) :
                    term.data.rows[i][j].erasable = before.term.data.rows[i][j].erasable

\* an erase cleared a protected cell while a cell was pending, the pen was
\* set and a cursor was saved
C39_Witness ==
    /\ IsCsi(EditingNames) /\ ~panicked
    /\ before.term.write_stack # <<>>
    /\ before.term.fg # IndexBase(7)
    /\ before.saved_cursor # None
    /\ before.cursor # Cursor(0, 0)
    /\ \E i \in 1..MaxRow, j \in 1..MaxCol :
          /\ ~before.term.data.rows[i][j].erasable
          /\ before.term.data.rows[i][j].c = "p"
          /\ term.data.rows[i][j].c = " "

(***************************************************************************)
(* The groups of prepare_render.                                           *)
(***************************************************************************)
\* the number of cells in the groups before group k
RECURSIVE GroupStart(_, _)
GroupStart(groups, k) == IF k <= 1 THEN 0 ELSE GroupStart(groups, k - 1) + Len(groups[k - 1].text)

RECURSIVE GroupsText(_)
GroupsText(groups) == IF groups = <<>> THEN <<>> ELSE Head(groups).text \o GroupsText(Tail(groups))

\* every colour of the cells is in its table
ColoursResolve(data) ==
    \A i \in 1..Len(data) : ~to_rgba(data[i].cell.fg).panic /\ ~to_rgba(data[i].cell.bg).panic

\* the groups are non-empty, spell the characters of the cells in order, and
\* each group is a stretch of cells of one line with one fg, bg and attribute,
\* tagged with them and with the column of its first cell
IsGrouping(data, groups) ==
    /\ \A k \in 1..Len(groups) : groups[k].text # <<>>
    /\ GroupsText(groups) = [i \in 1..Len(data) |-> data[i].cell.c]
    /\ \A k \in 1..Len(groups) :
          LET from == GroupStart(groups, k)
              first == data[from + 1]
          IN /\ groups[k].col = first.col
             /\ groups[k].line = first.line
             /\ groups[k].fg = to_rgba(first.cell.fg).rgba
             /\ groups[k].bg = to_rgba(first.cell.bg).rgba
             /\ groups[k].attr = first.cell.attr
             /\ \A i \in 1..Len(groups[k].text) :
                   /\ data[from + i].line = first.line
                   /\ data[from + i].cell.fg = first.cell.fg
                   /\ data[from + i].cell.bg = first.cell.bg
                   /\ data[from + i].cell.attr = first.cell.attr

\* C40: for every sequence of positioned cells whose colours are in their
\* tables, prepare_render returns groups that are non-empty, hold consecutive
\* cells of one line with identical fg, bg and attribute, start at the column
\* of their first cell and, put together in order, give exactly the
\* characters of the input in input order; an empty input gives no group.
C40_GroupsLoseAndDuplicateNoCell ==
    /\ ColoursResolve(batch.data) =>
          /\ ~batch.out.panic
          /\ IsGrouping(batch.data, batch.out.groups)
    /\ batch.data = <<>> => batch.out.groups = <<>>

\* three cells were grouped into two groups: the first two share line and
\* style, the third differs in its bg only
C40_Witness ==
    /\ Len(batch.data) = 3
    /\ ColoursResolve(batch.data)
    /\ Len(batch.out.groups) = 2
    /\ Len(batch.out.groups[1].text) = 2
    /\ batch.data[3].line = batch.data[1].line
    /\ batch.data[3].cell.fg = batch.data[1].cell.fg
    /\ batch.data[3].cell.attr = batch.data[1].cell.attr
    /\ batch.data[3].cell.bg # batch.data[1].cell.bg
    /\ batch.out.groups[2].col = batch.data[3].col

====
